---- MODULE Spec2Model ----
(***************************************************************************)
(* Model of ThaiReadingOrderAnalyzer (thai_reading_order.py): the          *)
(* foundation matcher, the template matcher, the recursive segmentation    *)
(* search and the assembly of the result.                                  *)
(*                                                                         *)
(* Characters are one-letter strings.  The Thai letters the scenarios use  *)
(* are written in ASCII:                                                   *)
(*   "l" lo ling, "w" wo waen, "y" yo yak, "o" o ang   (consonants)        *)
(*   "E" sara e (written before the consonant), "A" sara aa                *)
(*   "t" mai ek, "u" mai tho, "v" mai tri, "q" mai chattawa (tone marks)   *)
(* and "x" / "f" are the placeholders of a template.                       *)
(* Text positions are 0-based as in the source; TLA+ sequences are         *)
(* 1-based, so the character at position p of text is text[p + 1].         *)
(* An optional value (None or a value) is a sequence of length 0 or 1.     *)
(*                                                                         *)
(* Specifications:                                                         *)
(*   Spec          one call of findThaiGraphemeOrderDomain, step by step   *)
(*   SpecAssemble  the assembly step (lines 97-139) on an accumulator      *)
(*   SpecTwo       two calls on one analyzer, interleaved in every way     *)
(*   SpecMatch     one call of match_foundation                            *)
(*   SpecTry       one call of try_match_pattern_with_foundation           *)
(***************************************************************************)
EXTENDS Integers, Sequences, FiniteSets, TLC

VARIABLES text, foundation, vowel_patterns, pc, stack, all_readings,
          all_spans, result,
          other,   \* the locals of a second, suspended call (SpecTwo)
          call     \* one call of a matcher by itself (SpecMatch, SpecTry)

vars == <<text, foundation, vowel_patterns, pc, stack, all_readings,
          all_spans, result, other, call>>

\* ------------------------------------------------------------------ bounds

\* The longest text drawn from Chars (ExtraTexts adds a few longer ones).
MaxLen == 3

\* ------------------------------------------------------- program constants

\* self.tone_marks, line 32.
tone_marks == {"t", "u", "v", "q"}

\* Cluster sizes tried for x: range(1, min(3, len(text)) + 1), line 157.
MaxCluster == 3

\* The first start offset tried: range(-5, len(text)), line 153.
MinStart == -5

\* ------------------------------------------------------------ input domain

Consonants == {"l", "w", "y", "o"}

Chars == {"l", "w", "y", "o", "E", "A", "t"}

\* FOUNDATION of make_foundation_json.py has ล ว ย and no อ; the data file
\* the analyzer loads (res/foundation/foundation.json) may list อ as well.
FoundationSets == {{"l", "w", "y", "o"}, {"l", "w", "y"}}

SeqsUpTo(S, n) == UNION {[1..k -> S] : k \in 0..n}

\* Longer texts of the repository's own test lists: อย่า (debug_tone_marks.py)
\* and texts whose cluster carries tone marks.
ExtraTexts ==
  { <<"o", "y", "t", "A">>, <<"y", "A", "y", "A">>, <<"l", "t", "w", "t">> }

Texts == SeqsUpTo(Chars, MaxLen) \cup ExtraTexts

\* Catalogs: the keys of data["patterns"] in file order (a dict: distinct).
Catalogs ==
  { << <<"x", "A">>, <<"E", "x", "w">>, <<"E", "x", "f">>, <<"E", "x">> >>,
    << <<"E", "x">>, <<"E", "x", "f">>, <<"E", "x", "w">>, <<"E", "x", "x">> >>,
    << <<"x">>, <<"x", "A">>, <<"x", "f">> >>,
    << <<>>, <<"A">>, <<"x", "x">>, <<"E", "f">> >>,
    << <<"x">>, <<"t">> >>,
    << >> }

\* ----------------------------------------------------------------- helpers

Range(s) == {s[i] : i \in 1..Len(s)}

Last(s) == s[Len(s)]

Min(a, b) == IF a < b THEN a ELSE b

\* ------------------------------------------------------- match_foundation

EmptyContainer ==
  [consonants |-> <<>>, tone |-> <<>>, tone_owner |-> <<>>, positions |-> <<>>]

\* Lines 265-266: the consonant at idx joins the container.
with_consonant(c, txt, idx) ==
  [c EXCEPT !.consonants = Append(@, txt[idx + 1]),
            !.positions = Append(@, idx)]

\* Line 272: a tone mark stands at idx.
tone_follows(txt, idx) == idx < Len(txt) /\ txt[idx + 1] \in tone_marks

\* Mutant of with_tone: the owner is read from the counter after it was
\* incremented.
with_tone_owner_late(c, txt, idx, current_consonant_idx) ==
  [c EXCEPT !.tone = <<txt[idx + 1]>>,
            !.tone_owner = <<current_consonant_idx + 1>>,
            !.positions = Append(@, idx)]

\* Mutant of with_tone: the tone's position is not recorded.
with_tone_unrecorded(c, txt, idx, current_consonant_idx) ==
  [c EXCEPT !.tone = <<txt[idx + 1]>>,
            !.tone_owner = <<current_consonant_idx>>]

\* Mutant of with_tone: a tone already recorded is kept, and only the
\* position of a later tone mark is recorded.
with_tone_first(c, txt, idx, current_consonant_idx) ==
  IF c.tone # <<>>
  THEN [c EXCEPT !.positions = Append(@, idx)]
  ELSE [c EXCEPT !.tone = <<txt[idx + 1]>>,
                 !.tone_owner = <<current_consonant_idx>>,
                 !.positions = Append(@, idx)]

\* Lines 273-275: the tone mark at idx is attached to the consonant just read.
with_tone(c, txt, idx, current_consonant_idx) ==
  [c EXCEPT !.tone = <<txt[idx + 1]>>,
            !.tone_owner = <<current_consonant_idx>>,
            !.positions = Append(@, idx)]

\* Mutant of match_foundation_loop: the test of line 279 is left out, and the
\* container is returned with the consonants found so far.
RECURSIVE match_foundation_loop_partial(_, _, _, _, _, _)
match_foundation_loop_partial(txt, F, count, found, idx, c) ==
  IF found < count /\ idx < Len(txt)
  THEN IF txt[idx + 1] \notin F
       THEN <<>>
       ELSE LET c1 == with_consonant(c, txt, idx)
                hasTone == tone_follows(txt, idx + 1)
                c2 == IF hasTone
                      THEN with_tone(c1, txt, idx + 1, found)
                      ELSE c1
            IN match_foundation_loop_partial(txt, F, count, found + 1,
                                             IF hasTone THEN idx + 2
                                                        ELSE idx + 1, c2)
  ELSE <<c>>

RECURSIVE match_foundation_loop(_, _, _, _, _, _)
match_foundation_loop(txt, F, consonant_count, consonants_found, idx, c) ==
  IF consonants_found < consonant_count /\ idx < Len(txt)
  THEN IF txt[idx + 1] \notin F
       THEN <<>>
       ELSE LET c1 == with_consonant(c, txt, idx)
                hasTone == tone_follows(txt, idx + 1)
                c2 == IF hasTone
                      THEN with_tone(c1, txt, idx + 1, consonants_found)
                      ELSE c1
            IN match_foundation_loop(txt, F, consonant_count,
                                     consonants_found + 1,
                                     IF hasTone THEN idx + 2 ELSE idx + 1, c2)
  ELSE IF consonants_found # consonant_count THEN <<>> ELSE <<c>>

match_foundation(txt, F, start_pos, consonant_count) ==
  IF start_pos < 0 \/ start_pos >= Len(txt)
  THEN <<>>
  ELSE match_foundation_loop(txt, F, consonant_count, 0, start_pos,
                             EmptyContainer)

\* ---------------------------------------- try_match_pattern_with_foundation

EmptyMatch(pattern) ==
  [pattern |-> pattern, foundation |-> <<>>, vowel_text |-> <<>>,
   final |-> <<>>, positions |-> <<>>]

\* Mutant of AfterContainer: the cursor moves one position on, whatever the
\* container consumed.
AfterContainer_next(c, text_idx) == text_idx + 1

AfterContainer(c, text_idx) ==
  IF c.positions # <<>> THEN Last(c.positions) + 1 ELSE text_idx + 1

\* Mutant of final_width: f is matched with the cluster size of x.
final_width_cluster(cluster_size) == cluster_size

\* Line 210: f is matched as a group of one consonant, whatever cluster_size.
final_width(cluster_size) == 1

\* Mutant of try_match_loop: the cursor is only tested against the end of the
\* text, and a negative cursor reads the text from its end, as an index does.
RECURSIVE try_match_loop_unguarded(_, _, _, _, _, _, _)
try_match_loop_unguarded(txt, F, pattern, cluster_size, pattern_idx, text_idx, m) ==
  IF pattern_idx >= Len(pattern)
  THEN <<m>>
  ELSE IF text_idx >= Len(txt) \/ text_idx < 0 - Len(txt)
  THEN <<>>
  ELSE LET p_char == pattern[pattern_idx + 1]
           at == IF text_idx < 0 THEN text_idx + Len(txt) ELSE text_idx IN
    IF p_char \in {"x", "f"}
    THEN LET r == match_foundation(txt, F, text_idx,
                    IF p_char = "x" THEN cluster_size ELSE 1) IN
         IF r = <<>> THEN <<>>
         ELSE try_match_loop_unguarded(txt, F, pattern, cluster_size,
                pattern_idx + 1, AfterContainer(r[1], text_idx),
                IF p_char = "x"
                THEN [m EXCEPT !.foundation = r,
                               !.positions = @ \o r[1].positions]
                ELSE [m EXCEPT !.final = r,
                               !.positions = @ \o r[1].positions])
    ELSE IF txt[at + 1] = p_char
         THEN try_match_loop_unguarded(txt, F, pattern, cluster_size,
                pattern_idx + 1, text_idx + 1,
                [m EXCEPT !.vowel_text = Append(@, txt[at + 1]),
                          !.positions = Append(@, text_idx)])
         ELSE <<>>

RECURSIVE try_match_loop(_, _, _, _, _, _, _)
try_match_loop(txt, F, pattern, cluster_size, pattern_idx, text_idx, m) ==
  IF pattern_idx >= Len(pattern)
  THEN <<m>>
  ELSE IF text_idx < 0 \/ text_idx >= Len(txt)
  THEN <<>>
  ELSE LET p_char == pattern[pattern_idx + 1] IN
    IF p_char = "x"
    THEN LET r == match_foundation(txt, F, text_idx, cluster_size) IN
         IF r = <<>> THEN <<>>
         ELSE try_match_loop(txt, F, pattern, cluster_size, pattern_idx + 1,
                AfterContainer(r[1], text_idx),
                [m EXCEPT !.foundation = r,
                          !.positions = @ \o r[1].positions])
    ELSE IF p_char = "f"
    THEN LET r == match_foundation(txt, F, text_idx,
                                   final_width(cluster_size)) IN
         IF r = <<>> THEN <<>>
         ELSE try_match_loop(txt, F, pattern, cluster_size, pattern_idx + 1,
                AfterContainer(r[1], text_idx),
                [m EXCEPT !.final = r,
                          !.positions = @ \o r[1].positions])
    ELSE IF txt[text_idx + 1] = p_char
         THEN try_match_loop(txt, F, pattern, cluster_size, pattern_idx + 1,
                text_idx + 1,
                [m EXCEPT !.vowel_text = Append(@, txt[text_idx + 1]),
                          !.positions = Append(@, text_idx)])
         ELSE <<>>

\* The used set is a parameter of the source's function that it never reads.
try_match_pattern_with_foundation(txt, F, start_pos, pattern, cluster_size) ==
  try_match_loop(txt, F, pattern, cluster_size, 0, start_pos,
                 EmptyMatch(pattern))

\* The function with the parameters the source gives it (lines 176-177).
try_match_with_used(txt, F, start_pos, pattern, used, cluster_size) ==
  try_match_pattern_with_foundation(txt, F, start_pos, pattern, cluster_size)

\* ---------------------------------------------------- find_pattern_matches

\* Mutant of Unconflicted: the test of line 166 is left out and a match that
\* touches a used position is kept.
Unconflicted_any(ms, used) == ms

\* "if match: if not any(pos in used ...)": the matches kept, 0 or 1 of them.
Unconflicted(ms, used) ==
  IF ms # <<>> /\ Range(ms[1].positions) \cap used = {} THEN ms ELSE <<>>

\* Mutant of cluster_matches: range(1, max_cluster), the largest size never
\* tried.
RECURSIVE cluster_matches_short(_, _, _, _, _, _)
cluster_matches_short(txt, F, pattern, used, start_pos, cluster_size) ==
  IF cluster_size >= Min(MaxCluster, Len(txt))
  THEN <<>>
  ELSE Unconflicted(try_match_pattern_with_foundation(
                      txt, F, start_pos, pattern, cluster_size), used)
       \o cluster_matches_short(txt, F, pattern, used, start_pos,
                                cluster_size + 1)

RECURSIVE cluster_matches(_, _, _, _, _, _)
cluster_matches(txt, F, pattern, used, start_pos, cluster_size) ==
  IF cluster_size > Min(MaxCluster, Len(txt))
  THEN <<>>
  ELSE Unconflicted(try_match_pattern_with_foundation(
                      txt, F, start_pos, pattern, cluster_size), used)
       \o cluster_matches(txt, F, pattern, used, start_pos, cluster_size + 1)

\* Mutant of start_matches: only the cluster size 1 is tried.
start_matches_single(txt, F, pattern, used, start_pos) ==
  Unconflicted(try_match_pattern_with_foundation(
                 txt, F, start_pos, pattern,
                 IF "x" \in Range(pattern) THEN 1 ELSE 0), used)

start_matches(txt, F, pattern, used, start_pos) ==
  IF "x" \in Range(pattern)
  THEN cluster_matches(txt, F, pattern, used, start_pos, 1)
  ELSE Unconflicted(try_match_pattern_with_foundation(
                      txt, F, start_pos, pattern, 0), used)

RECURSIVE find_from(_, _, _, _, _)
find_from(txt, F, pattern, used, start_pos) ==
  IF start_pos >= Len(txt)
  THEN <<>>
  ELSE start_matches(txt, F, pattern, used, start_pos)
       \o find_from(txt, F, pattern, used, start_pos + 1)

find_pattern_matches(txt, F, pattern, used) ==
  find_from(txt, F, pattern, used, MinStart)

\* --------------------------------------------------- explore_segmentations

\* The matches of every catalog pattern, in the order the two nested loops of
\* explore_segmentations meet them (lines 74-78).
RECURSIVE matches_from(_, _, _, _, _)
matches_from(txt, F, patterns, used, i) ==
  IF i > Len(patterns)
  THEN <<>>
  ELSE find_pattern_matches(txt, F, patterns[i], used)
       \o matches_from(txt, F, patterns, used, i + 1)

\* Mutant of using_pos: the test of line 80 is left out and the loop recurses
\* into every match.
using_pos_all(ms, pos) == ms

\* Mutant of using_pos: the loop recurses into every match that consumes some
\* position, whether or not it consumes pos.
RECURSIVE using_pos_some(_, _)
using_pos_some(ms, pos) ==
  IF ms = <<>>
  THEN <<>>
  ELSE (IF Head(ms).positions # <<>> THEN <<Head(ms)>> ELSE <<>>)
       \o using_pos_some(Tail(ms), pos)

\* Line 80: of those matches, the ones the loop recurses into.
RECURSIVE using_pos(_, _)
using_pos(ms, pos) ==
  IF ms = <<>>
  THEN <<>>
  ELSE (IF pos \in Range(Head(ms).positions) THEN <<Head(ms)>> ELSE <<>>)
       \o using_pos(Tail(ms), pos)

\* What the two loops of a call will recurse into, in order: the matches are
\* computed from text, the catalog and the call's own used set, none of which
\* changes while the call runs.
Agenda(txt, F, patterns, used, pos) ==
  using_pos(matches_from(txt, F, patterns, used, 1), pos)

\* Lines 65-66: the first position at or after pos that is not used.
RECURSIVE next_unused(_, _, _)
next_unused(pos, used, text_len) ==
  IF pos < text_len /\ pos \in used
  THEN next_unused(pos + 1, used, text_len)
  ELSE pos

\* Lines 81-86.
Syllable(match) ==
  [foundation |-> match.foundation, vowel |-> match.vowel_text,
   final |-> match.final, pattern |-> match.pattern]

\* A call explore_segmentations(pos, used, current_reading) at its entry.
\* agenda is what is left of the loops of lines 74-92 once the call is in them.
\* spans records, for each syllable of current_reading, match['positions'] of
\* the match it was built from (the syllable itself does not keep it).
Frame(pos, used, current_reading, spans) ==
  [pos |-> pos, used |-> used, current_reading |-> current_reading,
   spans |-> spans, phase |-> "enter", agenda |-> <<>>]

Top == stack[Len(stack)]

Pop == SubSeq(stack, 1, Len(stack) - 1)

\* The call returns: its frame is dropped; the outermost call returns to
\* line 97.
ReturnFromCall ==
  /\ stack' = Pop
  /\ pc' = IF Len(stack) = 1 THEN "assemble" ELSE "search"

\* Mutant of Complete: the test of line 59 off by one.
CompleteOffByOne(fr) == Cardinality(fr.used) >= Len(text) - 1

\* Mutant of Complete: a tone mark left unused does not keep a reading from
\* being complete.
CompleteButTones(fr) ==
  \A p \in (0..(Len(text) - 1)) \ fr.used : text[p + 1] \in tone_marks

Complete(fr) == Cardinality(fr.used) = Len(text)

\* Mutant of Accepting: the single-syllable test of line 60 left out.
AcceptingAnyLength(fr) == Complete(fr)

\* Accepting condition of lines 59-60.
Accepting(fr) == Complete(fr) /\ Len(fr.current_reading) = 1

\* ---------------------------------------------------------------- assembly

\* Mutant of container_str: the position list is left out of the printed
\* form.
container_str_content(c) ==
  IF c = <<>>
  THEN <<"None">>
  ELSE <<"dict", c[1].consonants, c[1].tone, c[1].tone_owner>>

\* str(reading), the deduplication key of line 102: the printed form of the
\* list of syllable dicts shows every key of every dict, the position lists of
\* the containers included.
container_str(c) ==
  IF c = <<>>
  THEN <<"None">>
  ELSE <<"dict", c[1].consonants, c[1].tone, c[1].tone_owner, c[1].positions>>

reading_str(reading) ==
  [i \in 1..Len(reading) |->
     <<container_str(reading[i].foundation), reading[i].vowel,
       container_str(reading[i].final), reading[i].pattern>>]

\* Mutant of render_from: the tone is written after the last consonant of the
\* group instead of after its owner.
render_from_tone_last(c, i) == c.consonants \o c.tone

\* render_foundation, lines 284-299.
RECURSIVE render_from(_, _)
render_from(c, i) ==
  IF i > Len(c.consonants)
  THEN <<>>
  ELSE (IF c.tone # <<>> /\ c.tone_owner = <<i - 1>>
        THEN <<c.consonants[i], c.tone[1]>>
        ELSE <<c.consonants[i]>>)
       \o render_from(c, i + 1)

render_foundation(c) ==
  IF c = <<>> \/ c[1].consonants = <<>> THEN <<>> ELSE render_from(c[1], 1)

\* Mutant of syllable_tokens: the tokens in text order of a leading-consonant
\* template (vowel, foundation, final) instead of foundation, vowel, final.
syllable_tokens_vowel_first(syllable) ==
  (IF syllable.vowel # <<>> THEN <<syllable.vowel>> ELSE <<>>)
  \o (IF render_foundation(syllable.foundation) # <<>>
      THEN <<render_foundation(syllable.foundation)>> ELSE <<>>)
  \o (IF syllable.final # <<>>
      THEN <<render_foundation(syllable.final)>> ELSE <<>>)

\* Lines 110-126 for one syllable: the tokens appended to reading_order.
syllable_tokens(syllable) ==
  LET foundation_text == render_foundation(syllable.foundation) IN
  (IF foundation_text # <<>> THEN <<foundation_text>> ELSE <<>>)
  \o (IF syllable.vowel # <<>> THEN <<syllable.vowel>> ELSE <<>>)
  \o (IF syllable.final # <<>>
      THEN <<render_foundation(syllable.final)>> ELSE <<>>)

RECURSIVE reading_order_from(_, _)
reading_order_from(reading, i) ==
  IF i > Len(reading)
  THEN <<>>
  ELSE syllable_tokens(reading[i]) \o reading_order_from(reading, i + 1)

\* ''.join(parts).
RECURSIVE join(_)
join(parts) == IF parts = <<>> THEN <<>> ELSE Head(parts) \o join(Tail(parts))

\* Lines 128-132.
build_reading(reading) ==
  LET reading_order == reading_order_from(reading, 1) IN
  [syllables |-> reading, reading_order |-> reading_order,
   matched_text |-> join(reading_order)]

\* Mutant of dedup_from: the output is built from the first raw reading
\* instead of the loop variable.
RECURSIVE dedup_from_stale(_, _, _)
dedup_from_stale(all, i, seen) ==
  IF i > Len(all)
  THEN <<>>
  ELSE IF reading_str(all[i]) \notin seen
       THEN <<build_reading(all[1])>>
            \o dedup_from_stale(all, i + 1, seen \cup {reading_str(all[i])})
       ELSE dedup_from_stale(all, i + 1, seen)

\* Mutant of dedup_from: the loop stops one raw reading early.
RECURSIVE dedup_from_short(_, _, _)
dedup_from_short(all, i, seen) ==
  IF i >= Len(all)
  THEN <<>>
  ELSE IF reading_str(all[i]) \notin seen
       THEN <<build_reading(all[i])>>
            \o dedup_from_short(all, i + 1, seen \cup {reading_str(all[i])})
       ELSE dedup_from_short(all, i + 1, seen)

\* Lines 98-132: the loop over all_readings with its seen set.
RECURSIVE dedup_from(_, _, _)
dedup_from(all, i, seen) ==
  IF i > Len(all)
  THEN <<>>
  ELSE IF reading_str(all[i]) \notin seen
       THEN <<build_reading(all[i])>>
            \o dedup_from(all, i + 1, seen \cup {reading_str(all[i])})
       ELSE dedup_from(all, i + 1, seen)

\* Mutant of assemble: each new reading is put in front of the list instead
\* of at its end.
assemble_in_front(all) ==
  LET unique == dedup_from(all, 1, {}) IN
  [k \in 1..Len(unique) |-> unique[Len(unique) + 1 - k]]

assemble(all) == dedup_from(all, 1, {})

\* Mutant of ambiguous: "> 0" for "> 1".
ambiguous_from_one(unique) == Len(unique) > 0

\* Mutant of ambiguous: every count of readings other than one is flagged.
ambiguous_unless_one(unique) == Len(unique) # 1

\* Line 137.
ambiguous(unique) == Len(unique) > 1

\* ------------------------------------------------------------------ actions

\* Mutant of not_text: the early return of line 43 is never taken.
not_text_never(t) == FALSE

\* "if not text", line 43.
not_text(t) == t = <<>>

\* Lines 44-49.
empty_result(t) ==
  [text |-> t, readings |-> <<>>, is_ambiguous |-> FALSE, unmatched |-> <<>>]

\* The analyzer after __init__, before a call: no text yet.
Init ==
  /\ foundation \in FoundationSets
  /\ vowel_patterns \in Catalogs
  /\ text = <<>>
  /\ pc = "idle"
  /\ stack = <<>>
  /\ all_readings = <<>>
  /\ all_spans = <<>>
  /\ result = <<>>
  /\ other = <<>>
  /\ call = <<>>

\* findThaiGraphemeOrderDomain("") for a text drawn from T: lines 43-49.
ReturnEmptyWith(T) ==
  /\ pc = "idle"
  /\ \E t \in T :
       /\ not_text(t)
       /\ text' = t
       /\ result' = << empty_result(t) >>
  /\ pc' = "done"
  /\ UNCHANGED <<foundation, vowel_patterns, stack, all_readings, all_spans,
                 other, call>>

ReturnEmpty == ReturnEmptyWith(Texts)

\* findThaiGraphemeOrderDomain(t) for a non-empty t drawn from T: the
\* accumulator starts empty (line 51) and the search is entered (line 95).
CallWith(T) ==
  /\ pc = "idle"
  /\ \E t \in T :
       /\ ~not_text(t)
       /\ text' = t
       /\ stack' = << Frame(0, {}, <<>>, <<>>) >>
  /\ all_readings' = <<>>
  /\ all_spans' = <<>>
  /\ pc' = "search"
  /\ UNCHANGED <<foundation, vowel_patterns, result, other, call>>

Call == CallWith(Texts)

\* Lines 59-62 with exactly one syllable: the reading is recorded.
Emit ==
  /\ pc = "search"
  /\ Top.phase = "enter"
  /\ Accepting(Top)
  /\ all_readings' = Append(all_readings, Top.current_reading)
  /\ all_spans' = Append(all_spans, Top.spans)
  /\ ReturnFromCall
  /\ UNCHANGED <<text, foundation, vowel_patterns, result, other, call>>

\* Lines 59-62 with another number of syllables: the cover is dropped.
Discard ==
  /\ pc = "search"
  /\ Top.phase = "enter"
  /\ Complete(Top)
  /\ ~Accepting(Top)
  /\ ReturnFromCall
  /\ UNCHANGED <<text, foundation, vowel_patterns, all_readings, all_spans,
                 result, other, call>>

\* Lines 64-72: move pos to the first unused position and start the loops.
Descend ==
  /\ pc = "search"
  /\ Top.phase = "enter"
  /\ ~Complete(Top)
  /\ LET p == next_unused(Top.pos, Top.used, Len(text)) IN
       IF p >= Len(text)
       THEN ReturnFromCall
       ELSE /\ stack' = [stack EXCEPT
                         ![Len(stack)].pos = p,
                         ![Len(stack)].phase = "loop",
                         ![Len(stack)].agenda =
                            Agenda(text, foundation, vowel_patterns,
                                   Top.used, p)]
            /\ pc' = "search"
  /\ UNCHANGED <<text, foundation, vowel_patterns, all_readings, all_spans,
                 result, other, call>>

\* Lines 74-92: the loops run on to the next match that uses pos, and the
\* search recurses into it.
Recurse ==
  /\ pc = "search"
  /\ Top.phase = "loop"
  /\ Top.agenda # <<>>
  /\ LET match == Head(Top.agenda)
         new_used == Top.used \cup Range(match.positions)
         new_reading == Append(Top.current_reading, Syllable(match))
     IN stack' = Append([stack EXCEPT ![Len(stack)].agenda = Tail(@)],
                        Frame(0, new_used, new_reading,
                              Append(Top.spans, match.positions)))
  /\ UNCHANGED <<text, foundation, vowel_patterns, pc, all_readings,
                 all_spans, result, other, call>>

\* Lines 74-92: the loops end without another match that uses pos.
Backtrack ==
  /\ pc = "search"
  /\ Top.phase = "loop"
  /\ Top.agenda = <<>>
  /\ ReturnFromCall
  /\ UNCHANGED <<text, foundation, vowel_patterns, all_readings, all_spans,
                 result, other, call>>

\* Lines 97-139: the readings are deduplicated and rendered, and the result
\* is returned.
Assemble ==
  /\ pc = "assemble"
  /\ result' = << [text |-> text, readings |-> assemble(all_readings),
                   is_ambiguous |-> ambiguous(assemble(all_readings)),
                   unmatched |-> <<>>] >>
  /\ pc' = "done"
  /\ UNCHANGED <<text, foundation, vowel_patterns, stack, all_readings,
                 all_spans, other, call>>

Next ==
  \/ ReturnEmpty
  \/ Call
  \/ Emit
  \/ Discard
  \/ Descend
  \/ Recurse
  \/ Backtrack
  \/ Assemble

Spec == Init /\ [][Next]_vars

\* --------------------------------------------- the assembly step by itself

\* The longest accumulator handed to the assembly step.
MaxRaw == 3

\* Texts with a repeated syllable, so that one template matches the same
\* content at two offsets, and the ambiguity scenario's text.
AssembleTexts ==
  {<<"l", "l">>, <<"y", "A", "y", "A">>, <<"E", "l", "w">>}

\* The one-syllable raw readings the template matcher can hand over for txt:
\* one per successful match of a catalog template at an offset of txt.
RawReadings(txt, F, patterns) ==
  {<< Syllable(m[1]) >> :
     m \in {try_match_pattern_with_foundation(txt, F, n[2], patterns[n[1]],
                                              n[3]) :
              n \in {k \in (1..Len(patterns)) \X (0..(Len(txt) - 1))
                             \X (0..MaxCluster) :
                       k[3] \in (IF "x" \in Range(patterns[k[1]])
                                 THEN 1..MaxCluster ELSE {0})}} \ {<<>>}}

\* Line 97 is reached with some accumulator of raw readings.
InitAssemble ==
  /\ foundation \in FoundationSets
  /\ vowel_patterns \in Catalogs
  /\ text \in AssembleTexts
  /\ pc = "assemble"
  /\ stack = <<>>
  /\ all_readings \in
       SeqsUpTo(RawReadings(text, foundation, vowel_patterns), MaxRaw)
  /\ all_spans = <<>>
  /\ result = <<>>
  /\ other = <<>>
  /\ call = <<>>

NextAssemble == Assemble

SpecAssemble == InitAssemble /\ [][NextAssemble]_vars

\* ------------------------------------------------- the call as a function

\* explore_segmentations(pos, used, current_reading), lines 54-92, as the
\* list of raw readings the call and the calls below it append to the
\* accumulator, in the order they append them.
RECURSIVE explore(_, _, _, _, _, _)
RECURSIVE explore_each(_, _, _, _, _, _)
explore(txt, F, patterns, pos, used, current_reading) ==
  IF Cardinality(used) = Len(txt)
  THEN IF Len(current_reading) = 1 THEN << current_reading >> ELSE <<>>
  ELSE LET p == next_unused(pos, used, Len(txt)) IN
       IF p >= Len(txt)
       THEN <<>>
       ELSE explore_each(txt, F, patterns, used, current_reading,
                         Agenda(txt, F, patterns, used, p))

explore_each(txt, F, patterns, used, current_reading, agenda) ==
  IF agenda = <<>>
  THEN <<>>
  ELSE explore(txt, F, patterns, 0,
               used \cup Range(Head(agenda).positions),
               Append(current_reading, Syllable(Head(agenda))))
       \o explore_each(txt, F, patterns, used, current_reading,
                       Tail(agenda))

\* findThaiGraphemeOrderDomain(txt) of an analyzer with foundation set F and
\* catalog patterns, lines 37-139: the result of the call when nothing else
\* runs.
run_alone(txt, F, patterns) ==
  IF not_text(txt)
  THEN empty_result(txt)
  ELSE LET unique_readings ==
             assemble(explore(txt, F, patterns, 0, {}, <<>>))
       IN  [text |-> txt, readings |-> unique_readings,
            is_ambiguous |-> ambiguous(unique_readings),
            unmatched |-> <<>>]

\* ------------------------------------------- two calls on the same analyzer

\* The texts of the two calls.
TwoTexts ==
  {<<>>, <<"l">>, <<"y", "A">>, <<"l", "l">>, <<"E", "l", "w">>,
   <<"o", "y", "t", "A">>}

\* What belongs to one call of findThaiGraphemeOrderDomain: its argument,
\* where it is, the calls of explore_segmentations it is in (each with its own
\* pos, used and current_reading), its accumulator (line 51) and what it
\* returns.  The variables of these names hold the running call's; other
\* holds those of the call that is not running.
Locals ==
  [text |-> text, pc |-> pc, stack |-> stack, all_readings |-> all_readings,
   all_spans |-> all_spans, result |-> result]

\* A call that has not started.
IdleLocals ==
  [text |-> <<>>, pc |-> "idle", stack |-> <<>>, all_readings |-> <<>>,
   all_spans |-> <<>>, result |-> <<>>]

\* Mutant of Resume: the accumulator is one list of the analyzer instead of a
\* local of the call (line 51), so a call finds in it what the other call
\* left.
ResumeSharedAccumulator(saved, current) ==
  [saved EXCEPT !.all_readings = current.all_readings,
                !.all_spans = current.all_spans]

\* Mutant of Resume: the result is kept in the analyzer instead of being
\* returned by the call (lines 134-139).
ResumeSharedResult(saved, current) ==
  [saved EXCEPT !.result = current.result]

\* What a call finds when it runs again after the other call (whose locals
\* are current) has run: its own locals as it left them.
Resume(saved, current) == saved

\* The interpreter stops running one call and runs the other.
Switch ==
  /\ other # <<>>
  /\ LET mine == Resume(other, Locals) IN
       /\ text' = mine.text
       /\ pc' = mine.pc
       /\ stack' = mine.stack
       /\ all_readings' = mine.all_readings
       /\ all_spans' = mine.all_spans
       /\ result' = mine.result
  /\ other' = Locals
  /\ UNCHANGED <<foundation, vowel_patterns, call>>

\* One analyzer and two calls, neither started.
InitTwo ==
  /\ foundation \in FoundationSets
  /\ vowel_patterns \in Catalogs
  /\ text = <<>>
  /\ pc = "idle"
  /\ stack = <<>>
  /\ all_readings = <<>>
  /\ all_spans = <<>>
  /\ result = <<>>
  /\ other = IdleLocals
  /\ call = <<>>

ReturnEmptyTwo == ReturnEmptyWith(TwoTexts)

CallTwo == CallWith(TwoTexts)

NextTwo ==
  \/ ReturnEmptyTwo
  \/ CallTwo
  \/ Emit
  \/ Discard
  \/ Descend
  \/ Recurse
  \/ Backtrack
  \/ Assemble
  \/ Switch

SpecTwo == InitTwo /\ [][NextTwo]_vars

\* ------------------------------------------------ match_foundation by itself

\* The start offsets a call is given for txt: every position of txt and one
\* offset outside it on either side.
StartOffsets(txt) == (-1)..Len(txt)

\* Groups in which several consonants carry a tone mark, with different tone
\* marks.
ToneTexts ==
  {<<"l", "t", "w", "u">>, <<"l", "u", "w", "y", "t">>,
   <<"l", "t", "w", "u", "y", "v">>}

\* An analyzer, and no call of match_foundation yet.
InitMatch ==
  /\ foundation \in FoundationSets
  /\ vowel_patterns \in Catalogs
  /\ text = <<>>
  /\ pc = "idle"
  /\ stack = <<>>
  /\ all_readings = <<>>
  /\ all_spans = <<>>
  /\ result = <<>>
  /\ other = <<>>
  /\ call = <<>>

\* self.match_foundation(text, start_pos, consonant_count), lines 241-282:
\* the arguments and what is returned.
MatchFoundation ==
  /\ call = <<>>
  /\ \E txt \in Texts \cup ToneTexts, consonant_count \in 1..MaxCluster :
     \E start_pos \in StartOffsets(txt) :
       /\ call' = << [text |-> txt, start_pos |-> start_pos,
                      consonant_count |-> consonant_count,
                      returned |-> match_foundation(txt, foundation,
                                                    start_pos,
                                                    consonant_count)] >>
  /\ UNCHANGED <<text, foundation, vowel_patterns, pc, stack, all_readings,
                 all_spans, result, other>>

NextMatch == MatchFoundation

SpecMatch == InitMatch /\ [][NextMatch]_vars

\* ------------------------ try_match_pattern_with_foundation by itself

\* The characters of the texts the calls are given: two consonants, one
\* character that is a foundation character in one foundation set only, the
\* two vowel marks and a tone mark.
TryChars == {"l", "w", "o", "E", "A", "t"}

TryTexts == SeqsUpTo(TryChars, MaxLen) \cup ToneTexts

\* The cluster sizes of lines 155-171: 1..min(3, len(text)) for a pattern
\* with x, and 0 for one without.
ClusterSizes(txt, pattern) ==
  IF "x" \in Range(pattern) THEN 1..Min(MaxCluster, Len(txt)) ELSE {0}

\* The used sets the calls are given: nothing used, and everything used.
UsedSets(txt) == {{}, 0..(Len(txt) - 1)}

\* One call of try_match_pattern_with_foundation as the loops of
\* find_pattern_matches make it (lines 153-171), for a pattern of the catalog:
\* the arguments and what is returned.
TryMatch ==
  /\ call = <<>>
  /\ \E txt \in TryTexts, i \in 1..Len(vowel_patterns) :
     \E start_pos \in MinStart..(Len(txt) - 1),
        cluster_size \in ClusterSizes(txt, vowel_patterns[i]),
        used \in UsedSets(txt) :
       call' = << [text |-> txt, start_pos |-> start_pos,
                   pattern |-> vowel_patterns[i], used |-> used,
                   cluster_size |-> cluster_size,
                   returned |->
                     try_match_with_used(txt, foundation, start_pos,
                                         vowel_patterns[i], used,
                                         cluster_size)] >>
  /\ UNCHANGED <<text, foundation, vowel_patterns, pc, stack, all_readings,
                 all_spans, result, other>>

NextTry == TryMatch

SpecTry == InitMatch /\ [][NextTry]_vars

\* ------------------------------------------------------------------ claims

Returned == IF result = <<>> THEN <<>> ELSE result[1].readings

NoDuplicates(s) == Cardinality(Range(s)) = Len(s)

AllPositions == 0..(Len(text) - 1)

\* The position lists of the syllables of one reading consume every position
\* of text exactly once.
CoversText(spans) ==
  /\ \A i \in 1..Len(spans) : NoDuplicates(spans[i])
  /\ \A i, j \in 1..Len(spans) :
       i # j => Range(spans[i]) \cap Range(spans[j]) = {}
  /\ UNION {Range(spans[i]) : i \in 1..Len(spans)} = AllPositions

ContainerPositions(syllable) ==
  UNION {Range(c[1].positions) :
           c \in {syllable.foundation, syllable.final} \ {<<>>}}

\* C1 (coverage): every reading the search records, and so every reading of
\* the result, is made of syllables whose position lists have no duplicates,
\* are pairwise disjoint and together are exactly the positions 0..len(text)-1;
\* the positions of a syllable's containers are among the syllable's own.
C1_Coverage ==
  /\ Len(all_spans) = Len(all_readings)
  /\ \A i \in 1..Len(all_readings) :
       /\ Len(all_spans[i]) = Len(all_readings[i])
       /\ CoversText(all_spans[i])
       /\ \A j \in 1..Len(all_readings[i]) :
            ContainerPositions(all_readings[i][j]) \subseteq
              Range(all_spans[i][j])
  /\ \A k \in 1..Len(Returned) :
       \E i \in 1..Len(all_readings) : all_readings[i] = Returned[k].syllables

C1_Witness ==
  /\ pc = "done"
  /\ Len(text) >= 3
  /\ Len(Returned) >= 2

\* C2 (single-syllable acceptance): a step records a reading iff it is taken
\* at the entry of a call whose used set has len(text) positions and whose
\* partial list has exactly one syllable, and what it records is that list;
\* so every recorded and every returned reading has exactly one syllable, and
\* a full cover of two or more syllables is left without being recorded.
C2_SingleSyllable ==
  [][ /\ (all_readings' # all_readings) <=>
           /\ pc = "search"
           /\ Top.phase = "enter"
           /\ Cardinality(Top.used) = Len(text)
           /\ Len(Top.current_reading) = 1
      /\ (all_readings' # all_readings) =>
           all_readings' = Append(all_readings, Top.current_reading)
      /\ \A i \in 1..Len(all_readings') : Len(all_readings'[i]) = 1
      /\ \A k \in 1..Len(Returned') : Len(Returned'[k].syllables) = 1
    ]_vars

C2_Witness ==
  /\ pc = "search"
  /\ Top.phase = "enter"
  /\ Cardinality(Top.used) = Len(text)
  /\ Len(Top.current_reading) >= 2

\* The cluster widths of the claim: 1, 2, 3 for a template with x, a single
\* attempt otherwise.
Widths(T) == IF "x" \in Range(T) THEN 1..3 ELSE {0}

MatchAtZero(i, w) ==
  try_match_pattern_with_foundation(text, foundation, 0, vowel_patterns[i], w)

WholeMatches ==
  {p \in (1..Len(vowel_patterns)) \X (0..3) :
     /\ p[2] \in Widths(vowel_patterns[p[1]])
     /\ MatchAtZero(p[1], p[2]) # <<>>
     /\ Range(MatchAtZero(p[1], p[2])[1].positions) = AllPositions}

ReadingOf(p) == << Syllable(MatchAtZero(p[1], p[2])[1]) >>

\* C3 (exhaustiveness): for a non-empty text the returned readings correspond
\* one to one to the pairs (template, width) whose match from position 0
\* succeeds and consumes the whole text: as many readings as pairs, no reading
\* twice, every pair's reading returned and every returned reading a pair's.
C3_Exhaustive ==
  (pc = "done" /\ text # <<>>) =>
     /\ Len(Returned) = Cardinality(WholeMatches)
     /\ \A p \in WholeMatches :
          \E k \in 1..Len(Returned) : Returned[k].syllables = ReadingOf(p)
     /\ \A k \in 1..Len(Returned) :
          \E p \in WholeMatches : Returned[k].syllables = ReadingOf(p)
     /\ \A k1, k2 \in 1..Len(Returned) :
          k1 # k2 => Returned[k1].syllables # Returned[k2].syllables

C3_Witness ==
  /\ pc = "done"
  /\ Cardinality(WholeMatches) >= 2
  /\ \E p \in WholeMatches : p[2] = 3

\* C4: whatever the text, the empty text included, is_ambiguous is true
\* exactly when more than one reading is returned.
C4_AmbiguityFlag ==
  result # <<>> => (result[1].is_ambiguous <=> Len(result[1].readings) > 1)

C4_Witness ==
  /\ pc = "done"
  /\ Len(result[1].readings) = 1
  /\ ~result[1].is_ambiguous

\* Every syllable the state holds, with the positions of the match it was
\* built from: the syllables of the partial lists of the calls in progress, of
\* the recorded readings, and of the matches the loops still have before them.
SpannedSyllables ==
  UNION ( {{<<stack[i].current_reading[j], stack[i].spans[j]>> :
              j \in 1..Len(stack[i].current_reading)} : i \in 1..Len(stack)}
          \cup {{<<all_readings[i][j], all_spans[i][j]>> :
                   j \in 1..Len(all_readings[i])} : i \in 1..Len(all_readings)}
          \cup {{<<Syllable(m), m.positions>> : m \in Range(stack[i].agenda)} :
                  i \in 1..Len(stack)} )

ReturnedSyllables ==
  UNION {Range(Returned[k].syllables) : k \in 1..Len(Returned)}

ContainersOf(syllable) ==
  {c[1] : c \in {syllable.foundation, syllable.final} \ {<<>>}}

\* Every container the state holds.
Containers ==
  UNION {ContainersOf(s) :
           s \in {ss[1] : ss \in SpannedSyllables} \cup ReturnedSyllables}

\* The text positions of the consonants of a container, in order: its
\* positions that do not hold a tone mark (no FoundationSets member contains
\* a tone mark).
ConsonantPositions(c) ==
  SelectSeq(c.positions, LAMBDA p : text[p + 1] \notin tone_marks)

\* C5 (foundation invariant): in every container the matcher produced, each
\* consonant is in the foundation set; a tone, when present, is a tone mark,
\* tone_owner is the index of one of the container's consonants, and the tone
\* is the character of text right after that consonant.
C5_FoundationInvariant ==
  \A c \in Containers :
    /\ \A i \in 1..Len(c.consonants) : c.consonants[i] \in foundation
    /\ Len(ConsonantPositions(c)) = Len(c.consonants)
    /\ c.tone # <<>> =>
         /\ c.tone[1] \in tone_marks
         /\ c.tone_owner # <<>>
         /\ c.tone_owner[1] \in 0..(Len(c.consonants) - 1)
         /\ LET p == ConsonantPositions(c)[c.tone_owner[1] + 1] IN
              /\ text[p + 1] = c.consonants[c.tone_owner[1] + 1]
              /\ p + 1 < Len(text)
              /\ text[p + 2] = c.tone[1]

C5_Witness ==
  \E s \in ReturnedSyllables :
    /\ s.foundation # <<>>
    /\ Len(s.foundation[1].consonants) = 2
    /\ s.foundation[1].tone_owner = <<1>>

\* What a reading is apart from its position lists: per syllable the template,
\* the foundation's consonants, tone and tone owner, the vowel text and the
\* final's consonants, tone and tone owner.
ContainerContent(c) ==
  IF c = <<>> THEN <<>> ELSE <<c[1].consonants, c[1].tone, c[1].tone_owner>>

Content(reading) ==
  [j \in 1..Len(reading) |->
     <<reading[j].pattern, ContainerContent(reading[j].foundation),
       reading[j].vowel, ContainerContent(reading[j].final)>>]

\* C6: no two readings of a result have the same ordered syllable content.
C6_DistinctReadings ==
  \A k1, k2 \in 1..Len(Returned) :
    k1 # k2 => Content(Returned[k1].syllables) # Content(Returned[k2].syllables)

C6_Witness ==
  /\ pc = "done"
  /\ Len(Returned) >= 3

Elw == <<"E", "l", "w">>

Container(consonants, positions) ==
  [consonants |-> consonants, tone |-> <<>>, tone_owner |-> <<>>,
   positions |-> positions]

ElwReadings ==
  { << [foundation |-> <<Container(<<"l">>, <<1>>)>>, vowel |-> <<"E", "w">>,
        final |-> <<>>, pattern |-> <<"E", "x", "w">>] >>,
    << [foundation |-> <<Container(<<"l">>, <<1>>)>>, vowel |-> <<"E">>,
        final |-> <<Container(<<"w">>, <<2>>)>>,
        pattern |-> <<"E", "x", "f">>] >>,
    << [foundation |-> <<Container(<<"l", "w">>, <<1, 2>>)>>,
        vowel |-> <<"E">>, final |-> <<>>, pattern |-> <<"E", "x">>] >> }

ElwTemplates == {<<"E", "x", "w">>, <<"E", "x", "f">>, <<"E", "x">>}

\* C7 (the ambiguity scenario): for the text E l w, with l and w foundation
\* characters and a catalog holding E x w, E x f and E x, the result holds the
\* three readings (x = l with w a vowel literal; x = l and f = w; x = l w),
\* is_ambiguous is true, and the readings are exactly three when no other
\* template of the catalog matches the whole text.
C7_AmbiguityScenario ==
  ( /\ pc = "done"
    /\ text = Elw
    /\ {"l", "w"} \subseteq foundation
    /\ ElwTemplates \subseteq Range(vowel_patterns) ) =>
       /\ \A r \in ElwReadings :
            \E k \in 1..Len(Returned) : Returned[k].syllables = r
       /\ result[1].is_ambiguous
       /\ (\A p \in WholeMatches : vowel_patterns[p[1]] \in ElwTemplates)
            => Len(Returned) = 3

C7_Witness ==
  /\ pc = "done"
  /\ text = Elw
  /\ ElwTemplates \subseteq Range(vowel_patterns)
  /\ Len(Returned) = 3

\* The consonants of a container that text shows with a tone mark right after
\* them, as indices (from 1) into its consonant positions.
Toned(c) ==
  {k \in 1..Len(ConsonantPositions(c)) :
     /\ ConsonantPositions(c)[k] + 1 < Len(text)
     /\ text[ConsonantPositions(c)[k] + 2] \in tone_marks}

OytA == <<"o", "y", "t", "A">>

\* C8 (tone attachment): when exactly one consonant of a group bound to x or f
\* is followed in text by a tone mark, the container's tone is that mark,
\* tone_owner is that consonant's index in the group, and the tone's position
\* is among the container's and the syllable's positions; for o y t A matched
\* by x A the foundation is [o, y] with tone t, owner 1, positions 0, 1, 2.
C8_ToneAttachment ==
  \A ss \in SpannedSyllables :
    /\ \A c \in ContainersOf(ss[1]) :
         Cardinality(Toned(c)) = 1 =>
           \A k \in Toned(c) :
             LET p == ConsonantPositions(c)[k] IN
             /\ c.tone = <<text[p + 2]>>
             /\ c.tone_owner = <<k - 1>>
             /\ p + 1 \in Range(c.positions)
             /\ p + 1 \in Range(ss[2])
    /\ ( /\ text = OytA
         /\ ss[1].pattern = <<"x", "A">>
         /\ Len(ss[1].foundation[1].consonants) = 2 ) =>
         ss[1].foundation =
           << [consonants |-> <<"o", "y">>, tone |-> <<"t">>,
               tone_owner |-> <<1>>, positions |-> <<0, 1, 2>>] >>

C8_Witness ==
  /\ text = OytA
  /\ \E s \in ReturnedSyllables :
       /\ s.pattern = <<"x", "A">>
       /\ Len(s.foundation[1].consonants) = 2
       /\ Cardinality(Toned(s.foundation[1])) = 1

\* C9 (the simple scenario): for the text y A, with y a foundation character
\* and A not, and a catalog in which x A is the only template matching the
\* whole text, the result has exactly one reading, of one syllable with
\* foundation [y], vowel A and no final; matched_text is y A and is_ambiguous
\* is false.
C9_SimpleScenario ==
  ( /\ pc = "done"
    /\ text = <<"y", "A">>
    /\ "y" \in foundation
    /\ "A" \notin foundation
    /\ <<"x", "A">> \in Range(vowel_patterns)
    /\ \A p \in WholeMatches : vowel_patterns[p[1]] = <<"x", "A">> ) =>
       /\ Len(Returned) = 1
       /\ Returned[1].syllables =
            << [foundation |-> <<Container(<<"y">>, <<0>>)>>,
                vowel |-> <<"A">>, final |-> <<>>, pattern |-> <<"x", "A">>] >>
       /\ Returned[1].matched_text = <<"y", "A">>
       /\ ~result[1].is_ambiguous

C9_Witness ==
  /\ pc = "done"
  /\ text = <<"y", "A">>
  /\ <<"x", "A">> \in Range(vowel_patterns)
  /\ Len(vowel_patterns) >= 3
  /\ Len(Returned) = 1

\* C10: for the empty text the call returns at once, whatever the catalog and
\* the foundation set: zero readings, is_ambiguous false, and the search is
\* never entered, so no match is attempted.
C10_EmptyText ==
  text = <<>> =>
    /\ pc \in {"idle", "done"}
    /\ stack = <<>>
    /\ all_readings = <<>>
    /\ pc = "done" =>
         result = << [text |-> <<>>, readings |-> <<>>,
                      is_ambiguous |-> FALSE, unmatched |-> <<>>] >>

C10_Witness ==
  /\ pc = "done"
  /\ text = <<>>
  /\ vowel_patterns # <<>>

\* ---------------------------------------------------------------- C11

\* The positions of text consumed by the match of template i at offset start
\* with cluster width w; none when that match fails.
MatchedPositions(i, start, w) ==
  LET m == try_match_pattern_with_foundation(text, foundation, start,
                                             vowel_patterns[i], w)
  IN  IF m = <<>> THEN {} ELSE Range(m[1].positions)

\* Every position consumed by some successful match of some catalog
\* template, at any start offset and cluster width the search tries.
Covered ==
  UNION {MatchedPositions(m[1], m[2], m[3]) :
           m \in {n \in (1..Len(vowel_patterns))
                          \X (MinStart..(Len(text) - 1)) \X (0..3) :
                      n[3] \in Widths(vowel_patterns[n[1]])}}

\* Some step of the call can be taken.  Descend assigns its primed variables
\* without a further condition, so it can be taken exactly when its three
\* guards hold; the other actions are asked for directly.
CanStep ==
  \/ ENABLED (ReturnEmpty \/ Call \/ Emit \/ Discard \/ Recurse
                \/ Backtrack \/ Assemble)
  \/ (pc = "search" /\ Top.phase = "enter" /\ ~Complete(Top))

\* C11: when some position of the text is consumed by no successful match of
\* any catalog template, the call returns a normal result with zero readings
\* and is_ambiguous = FALSE; and the call never ends in an error state: until
\* it has returned it is in one of its three working states and can take a
\* step, and what it returns is one result record.
C11_NoMatchOutcome ==
  /\ pc \in {"idle", "search", "assemble", "done"}
  /\ pc # "done" => CanStep
  /\ pc = "done" => Len(result) = 1 /\ result[1].text = text
  /\ (pc = "done" /\ AllPositions \ Covered # {}) =>
       /\ result[1].readings = <<>>
       /\ result[1].is_ambiguous = FALSE

\* A lone foundation character under a catalog that has templates but none
\* that is a bare x: the call has returned.
C11_Witness ==
  /\ pc = "done"
  /\ Len(text) = 1
  /\ text[1] \in foundation
  /\ vowel_patterns # <<>>
  /\ 0 \notin Covered
  /\ result[1].readings = <<>>

\* ---------------------------------------------------------------- C12

Reversed(patterns) ==
  [i \in 1..Len(patterns) |-> patterns[Len(patterns) + 1 - i]]

\* C13 as the specification states it: the order of the readings of a result
\* is fixed by start positions and template ids, whatever the order in which
\* the catalog stores the templates and the search finds the readings; so the
\* same text under the same templates stored in the opposite order returns
\* the same readings in the same order.
C13_PresentationOrder ==
  pc = "done" =>
    result[1].readings =
      run_alone(text, foundation, Reversed(vowel_patterns)).readings

\* The place of a template in the catalog.
CatalogIndex(T) ==
  CHOOSE i \in 1..Len(vowel_patterns) : vowel_patterns[i] = T

TemplateOf(k) == Returned[k].syllables[1].pattern

\* C13 (what the call does): the readings of a result are in the order in
\* which the search found them, which is the order in which the catalog
\* stores their templates; every reading starts at position 0 and no two
\* readings have the same template, so a reading comes before another exactly
\* when its template comes first in the catalog.
C13_DiscoveryOrder ==
  pc = "done" =>
    /\ \A k \in 1..Len(Returned) :
         /\ Len(Returned[k].syllables) = 1
         /\ TemplateOf(k) \in Range(vowel_patterns)
    /\ \A k1, k2 \in 1..Len(Returned) :
         k1 < k2 <=> CatalogIndex(TemplateOf(k1)) < CatalogIndex(TemplateOf(k2))

\* The text E l w has returned under a catalog that stores E x before E x f
\* before E x w: the three readings come in that order, the opposite of
\* their order under the catalog that stores E x w first.
C13_Witness ==
  /\ pc = "done"
  /\ text = Elw
  /\ Len(Returned) >= 3
  /\ TemplateOf(1) = <<"E", "x">>
  /\ TemplateOf(2) = <<"E", "x", "f">>
  /\ TemplateOf(3) = <<"E", "x", "w">>

\* ---------------------------------------------------------------- C14

\* The ways of putting n raw readings in another order.
Orderings(n) ==
  {f \in [1..n -> 1..n] : \A i, j \in 1..n : f[i] = f[j] => i = j}

\* C14: the set of unique readings the assembly step produces depends only
\* on the multiset of raw readings: the step applied to the raw readings in
\* any other order produces the same set, and so does the step applied to the
\* syllable lists of the readings it has produced.
C14_AssemblyOrderIndependent ==
  pc = "done" =>
    /\ \A f \in Orderings(Len(all_readings)) :
         Range(assemble([i \in 1..Len(all_readings) |-> all_readings[f[i]]]))
           = Range(Returned)
    /\ Range(assemble([k \in 1..Len(Returned) |-> Returned[k].syllables]))
         = Range(Returned)

\* The step has run on three raw readings, two of them different and one a
\* repetition, given in an order that does not begin with the repeated one.
C14_Witness ==
  /\ pc = "done"
  /\ Len(all_readings) = 3
  /\ all_readings[1] # all_readings[2]
  /\ all_readings[2] = all_readings[3]
  /\ Len(Returned) = 2

\* ---------------------------------------------------------------- C16

\* Along the branch the search is in, every call below another has a used set
\* that strictly contains the other's and one syllable more.
UsedGrows ==
  \A i \in 1..(Len(stack) - 1) :
    /\ stack[i].used \subseteq stack[i + 1].used
    /\ stack[i].used # stack[i + 1].used
    /\ Len(stack[i + 1].current_reading) = Len(stack[i].current_reading) + 1

\* No branch holds more syllables than text has positions.
DepthBounded ==
  \A i \in 1..Len(stack) :
    /\ stack[i].used \subseteq AllPositions
    /\ Len(stack[i].current_reading) <= Len(text)
    /\ i <= Len(text) + 1

\* What is left of the call, most significant entry first: how far the call
\* is from its return, then for every call of the search from the outermost
\* to the innermost whether it has still to enter its loops and how many
\* matches its loops have still to recurse into.
PcRank ==
  CASE pc = "idle" -> 3
    [] pc = "search" -> 2
    [] pc = "assemble" -> 1
    [] OTHER -> 0

Rank ==
  <<PcRank>> \o
  [n \in 1..(2 * Len(stack)) |->
     LET fr == stack[(n + 1) \div 2] IN
     IF n % 2 = 1
     THEN (IF fr.phase = "enter" THEN 2 ELSE 1)
     ELSE Len(fr.agenda)]

At(s, i) == IF i <= Len(s) THEN s[i] ELSE 0

\* a comes before b in the lexicographic order, a shorter sequence read as
\* filled up with zeros.
LexLess(a, b) ==
  \E i \in 1..(IF Len(a) > Len(b) THEN Len(a) ELSE Len(b)) :
    /\ At(a, i) < At(b, i)
    /\ \A j \in 1..(i - 1) : At(a, j) = At(b, j)

\* C16: the call terminates, whatever the text and the catalog: until it has
\* returned it can take a step, and every step makes Rank smaller in the
\* lexicographic order, which has no infinite descent over sequences whose
\* length is bounded as DepthBounded bounds it.  Every match the search
\* recurses into adds at least one position to the used set, so the used set
\* strictly grows along every branch, and no branch is deeper than len(text)
\* syllables.
C16_Termination ==
  /\ [](pc # "done" => CanStep)
  /\ [](UsedGrows /\ DepthBounded)
  /\ [][LexLess(Rank', Rank)]_vars

\* A branch of the greatest depth: three syllables on a text of length three.
C16_Witness ==
  /\ pc = "search"
  /\ Len(text) = 3
  /\ Len(stack) = 4
  /\ Cardinality(Top.used) = 3

\* ---------------------------------------------------------------- C15

\* C15: two runs of findThaiGraphemeOrderDomain on the same text against the
\* same analyzer (same catalog, foundation set and tone marks), one after the
\* other or interleaved in any way, return the same set of unique readings
\* and the same is_ambiguous flag.
C15_Determinism ==
  (pc = "done" /\ other.pc = "done" /\ text = other.text) =>
    /\ Range(result[1].readings) = Range(other.result[1].readings)
    /\ result[1].is_ambiguous = other.result[1].is_ambiguous

\* Both runs of the text E l w have returned, with more than one reading.
C15_Witness ==
  /\ pc = "done"
  /\ other.pc = "done"
  /\ text = Elw
  /\ other.text = Elw
  /\ Len(result[1].readings) >= 2
  /\ result[1].is_ambiguous

\* ---------------------------------------------------------------- C17

\* C17: whatever the interleaving of the steps of two calls on the same
\* analyzer, each call returns exactly what it returns when it runs alone;
\* a step of the running call leaves everything of the other call as it is
\* (other changes only when the interpreter switches calls, and then holds
\* what the stopped call had), and no step changes the catalog or the
\* foundation set.
C17_NoInterference ==
  /\ [](pc = "done" =>
          result = << run_alone(text, foundation, vowel_patterns) >>)
  /\ [](other.pc = "done" =>
          other.result =
            << run_alone(other.text, foundation, vowel_patterns) >>)
  /\ [][/\ foundation' = foundation
        /\ vowel_patterns' = vowel_patterns
        /\ (other' = other \/ other' = Locals)]_vars

\* A call on the text E l w has returned its readings while the other call,
\* on another text, is in the middle of its search with a reading already
\* accumulated.
C17_Witness ==
  /\ pc = "done"
  /\ text = Elw
  /\ Len(result[1].readings) >= 2
  /\ other.pc = "search"
  /\ other.text = <<"y", "A">>
  /\ Len(other.stack) >= 1
  /\ Len(other.all_readings) = 1

\* ---------------------------------------------------------------- C19

\* The position of the k-th consonant slot (k = 0, 1, ...) of a group that
\* starts at start: the first slot is start, and the next slot is the position
\* after the slot before it, or two positions after it when a tone mark
\* stands in between.
RECURSIVE SlotAt(_, _, _)
SlotAt(txt, start, k) ==
  IF k = 0
  THEN start
  ELSE LET s == SlotAt(txt, start, k - 1) IN
       IF s + 1 < Len(txt) /\ txt[s + 2] \in tone_marks
       THEN s + 2
       ELSE s + 1

\* The text ends before slot k.
SlotMissing(txt, start, k) == SlotAt(txt, start, k) >= Len(txt)

\* Slot k holds a character that is not a foundation character.
SlotForeign(txt, start, k) ==
  /\ ~SlotMissing(txt, start, k)
  /\ txt[SlotAt(txt, start, k) + 1] \notin foundation

\* C19: match_foundation(text, start, width) returns no container when start
\* is outside [0, len(text)), when one of the width consonant slots holds a
\* character that is not in the foundation set, or when the text ends before
\* width consonants were found; and a container it returns holds exactly
\* width consonants, the characters of the width slots.
C19_NoPartialContainers ==
  call # <<>> =>
    LET txt == call[1].text
        start == call[1].start_pos
        width == call[1].consonant_count
        returned == call[1].returned
    IN  /\ (start < 0 \/ start >= Len(txt)) => returned = <<>>
        /\ (/\ start >= 0
            /\ start < Len(txt)
            /\ \E k \in 0..(width - 1) :
                 SlotForeign(txt, start, k) \/ SlotMissing(txt, start, k))
           => returned = <<>>
        /\ returned # <<>> =>
             /\ Len(returned[1].consonants) = width
             /\ \A k \in 0..(width - 1) :
                  returned[1].consonants[k + 1] = txt[SlotAt(txt, start, k) + 1]

\* A call for a group of two on a text that ends after one consonant and its
\* tone mark: the text ends before the second slot, and nothing is returned.
C19_Witness ==
  /\ call # <<>>
  /\ call[1].text = <<"l", "t">>
  /\ call[1].start_pos = 0
  /\ call[1].consonant_count = 2
  /\ call[1].returned = <<>>

\* ---------------------------------------------------------------- C20

\* C20 as the specification states it: the position list of a container that
\* match_foundation returns holds exactly the positions of its consonants
\* and, when a tone is recorded, the position of that one tone, right after
\* its owner: one entry more than there are consonants when tone is set, and
\* as many entries as consonants otherwise.
C20_PositionBookkeeping ==
  (call # <<>> /\ call[1].returned # <<>>) =>
    LET txt == call[1].text
        start == call[1].start_pos
        c == call[1].returned[1]
        consonant_positions ==
          {SlotAt(txt, start, k) : k \in 0..(Len(c.consonants) - 1)}
        tone_position ==
          IF c.tone = <<>>
          THEN {}
          ELSE {SlotAt(txt, start, c.tone_owner[1]) + 1}
    IN  /\ Range(c.positions) = consonant_positions \cup tone_position
        /\ Len(c.positions) =
             Len(c.consonants) + (IF c.tone = <<>> THEN 0 ELSE 1)

\* ---------------------------------------------------------------- C21

\* The slots of the group whose consonant is immediately followed by a tone
\* mark.
TonedSlots(txt, start, width) ==
  {k \in 0..(width - 1) :
     /\ SlotAt(txt, start, k) + 1 < Len(txt)
     /\ txt[SlotAt(txt, start, k) + 2] \in tone_marks}

Greatest(S) == CHOOSE k \in S : \A j \in S : j <= k

\* C21: when match_foundation binds a group of width 2 or 3 in which more
\* than one consonant is immediately followed by a tone mark, the container
\* it returns has the tone mark and the owner of the last such consonant in
\* text order.
C21_LastToneWins ==
  (call # <<>> /\ call[1].returned # <<>>) =>
    LET txt == call[1].text
        start == call[1].start_pos
        width == call[1].consonant_count
        c == call[1].returned[1]
        toned == TonedSlots(txt, start, width)
    IN  (width >= 2 /\ Cardinality(toned) > 1) =>
          /\ c.tone_owner = << Greatest(toned) >>
          /\ c.tone = << txt[SlotAt(txt, start, Greatest(toned)) + 2] >>

\* The group l w of the text l t w u, each consonant with its own tone mark:
\* the container has the second tone mark, owned by w.
C21_Witness ==
  /\ call # <<>>
  /\ call[1].text = <<"l", "t", "w", "u">>
  /\ call[1].start_pos = 0
  /\ call[1].consonant_count = 2
  /\ call[1].returned # <<>>
  /\ call[1].returned[1].tone = <<"u">>
  /\ call[1].returned[1].tone_owner = <<1>>

\* ---------------------------------------------------------------- C22

\* C22: in every candidate syllable the final container holds exactly one
\* consonant (with or without a tone), whatever cluster size was asked for,
\* and the foundation container holds exactly as many consonants as the
\* cluster size asked for, which is between 1 and 3; a container is there
\* exactly when the template has its placeholder.
C22_ContainerSizes ==
  (call # <<>> /\ call[1].returned # <<>>) =>
    LET m == call[1].returned[1]
        pattern == call[1].pattern
        cluster_size == call[1].cluster_size
    IN  /\ (m.final # <<>>) <=> ("f" \in Range(pattern))
        /\ m.final # <<>> =>
             /\ Len(m.final[1].consonants) = 1
             /\ Len(m.final[1].tone) <= 1
        /\ (m.foundation # <<>>) <=> ("x" \in Range(pattern))
        /\ m.foundation # <<>> =>
             /\ Len(m.foundation[1].consonants) = cluster_size
             /\ cluster_size \in 1..3

\* The template x f matched with cluster size 2: two consonants in the
\* foundation container, one in the final container.
C22_Witness ==
  /\ call # <<>>
  /\ call[1].pattern = <<"x", "f">>
  /\ call[1].cluster_size = 2
  /\ call[1].returned # <<>>
  /\ Len(call[1].returned[1].foundation[1].consonants) = 2
  /\ Len(call[1].returned[1].final[1].consonants) = 1

\* ---------------------------------------------------------------- C23

PositionsOfContainer(c) == IF c = <<>> THEN {} ELSE Range(c[1].positions)

\* The literal symbols of a template, in order.
RECURSIVE Literals(_)
Literals(pattern) ==
  IF pattern = <<>>
  THEN <<>>
  ELSE (IF Head(pattern) \in {"x", "f"} THEN <<>> ELSE <<Head(pattern)>>)
       \o Literals(Tail(pattern))

\* The characters of txt at the positions of S, in text order.
RECURSIVE CharsAt(_, _, _)
CharsAt(txt, S, p) ==
  IF p >= Len(txt)
  THEN <<>>
  ELSE (IF p \in S THEN <<txt[p + 1]>> ELSE <<>>) \o CharsAt(txt, S, p + 1)

\* C23 as the specification states it: the position list of a successful
\* match has no duplicates, lies inside [0, len(text)) and is the union of
\* the foundation container's positions, the positions of the matched
\* literals and the final container's positions; the vowel text is the
\* matched literals in text order.  The positions outside the two containers
\* are therefore those of the template's literals, one each, and the vowel
\* text is what the text holds there.
C23_CandidatePositions ==
  (call # <<>> /\ call[1].returned # <<>>) =>
    LET txt == call[1].text
        m == call[1].returned[1]
        contained == PositionsOfContainer(m.foundation)
                       \cup PositionsOfContainer(m.final)
        literal == Range(m.positions) \ contained
    IN  /\ NoDuplicates(m.positions)
        /\ Range(m.positions) \subseteq 0..(Len(txt) - 1)
        /\ contained \subseteq Range(m.positions)
        /\ PositionsOfContainer(m.foundation)
             \cap PositionsOfContainer(m.final) = {}
        /\ Cardinality(literal) = Len(Literals(call[1].pattern))
        /\ m.vowel_text = Literals(call[1].pattern)
        /\ m.vowel_text = CharsAt(txt, literal, 0)

\* ---------------------------------------------------------------- C24

\* How often the symbol s stands in a template.
Occurrences(pattern, s) ==
  Cardinality({i \in 1..Len(pattern) : pattern[i] = s})

\* The cursor after a successful match that started at start_pos.
CursorAfter(m, start_pos) ==
  IF m.positions = <<>> THEN start_pos ELSE Last(m.positions) + 1

\* The fewest characters a template can consume with groups of cluster_size.
MinNeed(pattern, cluster_size) ==
  Len(Literals(pattern)) + cluster_size * Occurrences(pattern, "x")
    + Occurrences(pattern, "f")

\* C24: a call of try_match_pattern_with_foundation fails whenever the cursor
\* stands outside [0, len(text)) while template symbols remain: whenever a
\* proper prefix of the template matches and leaves the cursor outside the
\* text, the call fails.  In particular a non-empty template fails at every
\* negative start offset, and a template that needs more characters than
\* remain from the start offset fails.
C24_OutOfRangeCursorFails ==
  call # <<>> =>
    LET txt == call[1].text
        pattern == call[1].pattern
        start_pos == call[1].start_pos
        cluster_size == call[1].cluster_size
    IN  /\ \A k \in 0..(Len(pattern) - 1) :
             LET pre == try_match_pattern_with_foundation(txt, foundation,
                          start_pos, SubSeq(pattern, 1, k), cluster_size)
             IN  (/\ pre # <<>>
                  /\ CursorAfter(pre[1], start_pos) \notin 0..(Len(txt) - 1))
                 => call[1].returned = <<>>
        /\ (pattern # <<>> /\ start_pos < 0) => call[1].returned = <<>>
        /\ start_pos + MinNeed(pattern, cluster_size) > Len(txt)
             => call[1].returned = <<>>

\* A literal template is tried one position before the text, where an index
\* counted from the end would have found its character; the call fails.
C24_Witness ==
  /\ call # <<>>
  /\ call[1].text = <<"l", "A">>
  /\ call[1].pattern = <<"A">>
  /\ call[1].start_pos = -1
  /\ call[1].returned = <<>>

\* ---------------------------------------------------------------- C25

\* A call of explore_segmentations is entered from inside another one.
Recursing == pc = "search" /\ stack # <<>> /\ Len(stack') = Len(stack) + 1

\* p is the smallest text position that is not in used.
SmallestUnused(p, used) ==
  /\ p \in 0..(Len(text) - 1)
  /\ p \notin used
  /\ \A q \in 0..(p - 1) : q \in used

\* The candidates the loops of a frame still hold all cover the frame's
\* smallest unused index and touch none of its used positions.
AgendaPruned ==
  \A d \in 1..Len(stack) :
    stack[d].phase = "loop" =>
      /\ SmallestUnused(stack[d].pos, stack[d].used)
      /\ \A j \in 1..Len(stack[d].agenda) :
           /\ stack[d].pos \in Range(stack[d].agenda[j].positions)
           /\ Range(stack[d].agenda[j].positions) \cap stack[d].used = {}

\* C25: in a non-terminal search state with smallest unused index p, a
\* candidate is appended to the partial reading and recursed into only if its
\* positions include p and are disjoint from the used set; the successor
\* state's used set is the old one with the candidate's positions added.
C25_Pruning ==
  /\ []AgendaPruned
  /\ [][Recursing =>
          LET parent == stack[Len(stack)]
              child == stack'[Len(stack')]
              span == Range(Last(child.spans))
          IN  /\ SmallestUnused(parent.pos, parent.used)
              /\ parent.pos \in span
              /\ span \cap parent.used = {}
              /\ child.used = parent.used \cup span
              /\ Len(child.current_reading) = Len(parent.current_reading) + 1
              /\ SubSeq(child.spans, 1, Len(parent.spans)) = parent.spans]_vars

\* The search has recursed twice, and at the second recursion the text held a
\* candidate that covers the smallest unused index but touches a used
\* position, which the loops left out.
C25_Witness ==
  /\ pc = "search"
  /\ Len(stack) >= 3
  /\ stack[2].used # {}
  /\ stack[2].phase = "loop"
  /\ \E m \in Range(matches_from(text, foundation, vowel_patterns, {}, 1)) :
       /\ stack[2].pos \in Range(m.positions)
       /\ Range(m.positions) \cap stack[2].used # {}

\* ---------------------------------------------------------------- C26

\* A container written out: its consonants in order, the tone directly after
\* the consonant that owns it.
Rendered(c) ==
  IF c = <<>>
  THEN <<>>
  ELSE IF c[1].tone = <<>>
  THEN c[1].consonants
  ELSE SubSeq(c[1].consonants, 1, c[1].tone_owner[1] + 1)
       \o c[1].tone
       \o SubSeq(c[1].consonants, c[1].tone_owner[1] + 2,
                 Len(c[1].consonants))

\* The tokens of the syllables from the j-th on: foundation, vowel, final.
RECURSIVE TokensFrom(_, _)
TokensFrom(syllables, j) ==
  IF j > Len(syllables)
  THEN <<>>
  ELSE LET s == syllables[j] IN
       (IF Rendered(s.foundation) # <<>> THEN <<Rendered(s.foundation)>>
                                         ELSE <<>>)
       \o (IF s.vowel # <<>> THEN <<s.vowel>> ELSE <<>>)
       \o (IF s.final # <<>> THEN <<Rendered(s.final)>> ELSE <<>>)
       \o TokensFrom(syllables, j + 1)

RECURSIVE Concatenation(_, _)
Concatenation(tokens, j) ==
  IF j > Len(tokens) THEN <<>>
  ELSE tokens[j] \o Concatenation(tokens, j + 1)

\* C26: for each returned reading, reading_order lists per syllable the
\* rendered foundation (consonants in order, the tone directly after the
\* tone_owner consonant) if it is non-empty, then the vowel text if non-empty,
\* then the rendered final if present, wherever those parts stand in the text,
\* and matched_text is the concatenation of the reading_order tokens.
C26_Rendering ==
  \A k \in 1..Len(Returned) :
    /\ Returned[k].reading_order = TokensFrom(Returned[k].syllables, 1)
    /\ Returned[k].matched_text = Concatenation(Returned[k].reading_order, 1)

\* A reading is returned whose foundation holds two consonants with the tone
\* on the first, written between them.
C26_Witness ==
  /\ text = <<"l", "t", "w">>
  /\ \E k \in 1..Len(Returned) :
       /\ Len(Returned[k].syllables) = 1
       /\ Returned[k].syllables[1].foundation # <<>>
       /\ Returned[k].syllables[1].foundation[1].consonants = <<"l", "w">>
       /\ Returned[k].syllables[1].foundation[1].tone_owner = <<0>>
       /\ Returned[k].reading_order = << <<"l", "t", "w">> >>
       /\ Returned[k].matched_text = <<"l", "t", "w">>

\* ---------------------------------------------------------------- C27

\* How often the character ch stands in the sequence s.
CountOf(s, ch) == Cardinality({i \in 1..Len(s) : s[i] = ch})

\* s is a rearrangement of t: same length, same multiset of characters.
Rearrangement(s, t) ==
  /\ Len(s) = Len(t)
  /\ \A ch \in Range(s) \cup Range(t) : CountOf(s, ch) = CountOf(t, ch)

\* Every template of the catalog holds at most one x and at most one f.
SinglePlaceholders ==
  \A i \in 1..Len(vowel_patterns) :
    /\ Occurrences(vowel_patterns[i], "x") <= 1
    /\ Occurrences(vowel_patterns[i], "f") <= 1

\* C27 as the specification states it: for every catalog whose templates hold
\* at most one x and at most one f, and every text, the matched_text of every
\* returned reading is a rearrangement of the text.
C27_RenderedTextPreserved ==
  SinglePlaceholders =>
    \A k \in 1..Len(Returned) : Rearrangement(Returned[k].matched_text, text)

\* ---------------------------------------------------------------- C28

\* The positions from a on, n of them, in increasing order.
Interval(a, n) == [i \in 1..n |-> a + i - 1]

\* The sum of the lengths of the first j spans.
RECURSIVE LengthBefore(_, _)
LengthBefore(spans, j) ==
  IF j = 0 THEN 0 ELSE LengthBefore(spans, j - 1) + Len(spans[j])

\* C28 (prefix invariant of the search): in every call of
\* explore_segmentations, complete or not, the used set is an initial segment
\* {0, ..., k-1} of the text positions, and the syllables of the partial
\* reading occupy adjacent, non-overlapping intervals in left-to-right text
\* order: each begins where the one before it ended, the first at 0, and
\* together they are the used set.
C28_PrefixInvariant ==
  \A d \in 1..Len(stack) :
    LET fr == stack[d] IN
    /\ fr.used = 0..(Cardinality(fr.used) - 1)
    /\ fr.used \subseteq AllPositions
    /\ Len(fr.spans) = Len(fr.current_reading)
    /\ \A j \in 1..Len(fr.spans) :
         /\ fr.spans[j] # <<>>
         /\ fr.spans[j] = Interval(LengthBefore(fr.spans, j - 1),
                                   Len(fr.spans[j]))
    /\ LengthBefore(fr.spans, Len(fr.spans)) = Cardinality(fr.used)

\* A call that is not complete holds two syllables, one position each, and
\* is in its loops with a third position still unused.
C28_Witness ==
  /\ pc = "search"
  /\ Len(stack) = 3
  /\ Top.phase = "loop"
  /\ Top.spans = << <<0>>, <<1>> >>
  /\ Top.used = {0, 1}
  /\ Len(text) = 3
  /\ Top.agenda # <<>>

\* ---------------------------------------------------------------- C29

\* C29 (contiguous matches): every successful call of
\* try_match_pattern_with_foundation consumes exactly the positions start,
\* start+1, ..., start+k-1, recorded in strictly increasing order, and its
\* result does not depend on the used set passed to it: the call with any
\* other used set returns the same.
C29_ContiguousMatches ==
  call # <<>> =>
    LET c == call[1] IN
    /\ c.returned # <<>> =>
         /\ c.returned[1].positions
              = Interval(c.start_pos, Len(c.returned[1].positions))
         /\ \A i \in 1..(Len(c.returned[1].positions) - 1) :
              c.returned[1].positions[i] < c.returned[1].positions[i + 1]
    /\ \A used \in UsedSets(c.text) :
         try_match_with_used(c.text, foundation, c.start_pos, c.pattern,
                             used, c.cluster_size) = c.returned

\* x f matches two toned consonants, four positions, in a call that was
\* handed every position of the text as used.
C29_Witness ==
  /\ call # <<>>
  /\ call[1].text = <<"l", "t", "w", "u">>
  /\ call[1].pattern = <<"x", "f">>
  /\ call[1].start_pos = 0
  /\ call[1].used = 0..3
  /\ call[1].returned # <<>>
  /\ call[1].returned[1].positions = <<0, 1, 2, 3>>

\* ---------------------------------------------------------------- C30

\* No tone mark is a foundation character, and no template holds one as a
\* literal.
TonesOnlyAfterConsonants ==
  /\ tone_marks \cap foundation = {}
  /\ \A i \in 1..Len(vowel_patterns) :
       Range(vowel_patterns[i]) \cap tone_marks = {}

\* The text holds a tone mark at position 0 or directly after a character
\* that is not a foundation character.
Stranded(txt) ==
  \E p \in 0..(Len(txt) - 1) :
    /\ txt[p + 1] \in tone_marks
    /\ p = 0 \/ txt[p] \notin foundation

\* C30 (stranded tone marks): when no tone mark is a foundation character and
\* no template holds a tone mark as a literal, a text with a tone mark at
\* position 0 or directly after a non-foundation character has no readings.
C30_StrandedToneMarks ==
  (pc = "done" /\ TonesOnlyAfterConsonants /\ Stranded(text)) =>
    /\ result # <<>>
    /\ Returned = <<>>
    /\ all_readings = <<>>

\* The call has returned for a text whose tone mark follows a vowel mark,
\* with a catalog whose template x A matches the two characters before it.
C30_Witness ==
  /\ pc = "done"
  /\ text = <<"l", "A", "t">>
  /\ vowel_patterns = << <<"x">>, <<"x", "A">>, <<"x", "f">> >>
  /\ try_match_pattern_with_foundation(text, foundation, 0, <<"x", "A">>, 1)
       # <<>>
  /\ Stranded(text)
  /\ Returned = <<>>

====
